---- MODULE Spec2Model ----
(***************************************************************************)
(* Model of rustix's src/io/stdio.rs: the accessors of the three standard  *)
(* file descriptors in their borrowed (stdin, stdout, stderr), owned       *)
(* (take_stdin, take_stdout, take_stderr) and raw (raw_stdin, raw_stdout,  *)
(* raw_stderr) forms, run by several threads against one process-wide      *)
(* descriptor table.                                                       *)
(*                                                                         *)
(* An accessor is a pure expression over a constant.  Its outcome is       *)
(* modelled as a record [val, sys]: the value it returns and the system    *)
(* calls it issues while doing so.  The handle constructors, the release   *)
(* of a handle and the descriptor table are collaborators of the module    *)
(* (backend::fd, backend::io::types, the operating system).                *)
(***************************************************************************)
EXTENDS Integers, Sequences, FiniteSets, Bags, TLC

\* ------------------------------------------------------------- bounds

\* Handles (borrowed or owned) alive at one time.
MaxHandles == 2

\* ------------------------------------------------- fixed model universe

Threads == {"t1", "t2"}

Kinds == {"Input", "Output", "Error"}

\* Descriptor numbers of the table: the three standard slots.  Numbers
\* above them are outside the model: what happens there changes nothing an
\* accessor of stdio.rs returns or closes.
FDs == 0 .. 2

\* ------------------------------------------ backend::io::types constants

STDIN_FILENO == 0

STDOUT_FILENO == 1

STDERR_FILENO == 2

\* ------------------------------------------------------------ resources

\* What a descriptor number denotes in the table.
Closed == [origin |-> "none", n |-> 0]

\* The stream the process was started with on descriptor fd.
StdioResource(fd) == [origin |-> "stdio", n |-> fd]

\* A resource unrelated code opened later.
UnrelatedResource == [origin |-> "open", n |-> 0]

\* -------------------------------------------------- backend::fd handles

NoSys == << >>

CloseCall(fd) == [call |-> "close", fd |-> fd]

\* BorrowedFd::borrow_raw: wraps the number, validates nothing, no syscall.
borrow_raw(fd) == [val |-> [tag |-> "borrowed", fd |-> fd], sys |-> NoSys]

\* OwnedFd::from_raw_fd: wraps the number, validates nothing, no syscall.
from_raw_fd(fd) == [val |-> [tag |-> "owned", fd |-> fd], sys |-> NoSys]

\* `CONST as RawFd`: the bare number.
as_RawFd(fd) == [val |-> [tag |-> "raw", fd |-> fd], sys |-> NoSys]

\* An accessor that reports a failure instead of a value (no accessor of
\* stdio.rs has this outcome; the model can express it).
Failure == [val |-> [tag |-> "error", fd |-> -1], sys |-> NoSys]

\* Dropping a handle: an OwnedFd closes its descriptor once, ignoring the
\* result; a BorrowedFd has no destructor.
drop(val) == IF val.tag = "owned" THEN << CloseCall(val.fd) >> ELSE NoSys

VARIABLES std, fdtable, handles, last

vars == << std, fdtable, handles, last >>

\* ------------------------------------------------ stdio.rs: raw accessors

\* Variant: the constant of another slot.
raw_stdin_swapped == as_RawFd(STDOUT_FILENO)

raw_stdin == as_RawFd(STDIN_FILENO)

raw_stdout == as_RawFd(STDOUT_FILENO)

raw_stderr == as_RawFd(STDERR_FILENO)

\* ------------------------------------------- stdio.rs: borrowed accessors
\* Each has a `std` and a `no_std` variant; the build selects one.

\* Variant: the owning constructor where the borrowing one belongs.
stdin_std_owning == from_raw_fd(STDIN_FILENO)

stdin_std == borrow_raw(STDIN_FILENO)

stdin_no_std == borrow_raw(STDIN_FILENO)

stdin == IF std THEN stdin_std ELSE stdin_no_std

stdout_std == borrow_raw(STDOUT_FILENO)

\* Variant: the constant of another slot.
stdout_no_std_swapped == borrow_raw(STDIN_FILENO)

stdout_no_std == borrow_raw(STDOUT_FILENO)

stdout == IF std THEN stdout_std ELSE stdout_no_std

\* Variant: fails unless the number still denotes the original stream.
stderr_std_checked ==
    IF fdtable[STDERR_FILENO] = StdioResource(STDERR_FILENO)
    THEN borrow_raw(STDERR_FILENO)
    ELSE Failure

stderr_std == borrow_raw(STDERR_FILENO)

stderr_no_std == borrow_raw(STDERR_FILENO)

stderr == IF std THEN stderr_std ELSE stderr_no_std

\* ---------------------------------------------- stdio.rs: owned accessors

\* The live handles that own descriptor number fd, a bag.
OwnedOn(fd) ==
    LET S == {h \in BagToSet(handles) : h.tag = "owned" /\ h.fd = fd}
    IN  [h \in S |-> handles[h]]

\* The live handles that borrow descriptor number fd, a bag.
BorrowedOn(fd) ==
    LET S == {h \in BagToSet(handles) : h.tag = "borrowed" /\ h.fd = fd}
    IN  [h \in S |-> handles[h]]

\* Variant: validates that the slot is open.
take_stdin_validating ==
    IF fdtable[STDIN_FILENO] = Closed THEN Failure ELSE from_raw_fd(STDIN_FILENO)

\* Variant: the constant of another slot.
take_stdin_swapped == from_raw_fd(STDOUT_FILENO)

take_stdin == from_raw_fd(STDIN_FILENO)

\* Variant: the constant of another slot.
take_stdout_swapped == from_raw_fd(STDERR_FILENO)

\* Variant: refuses while a borrowed handle for the slot is alive.
take_stdout_exclusive ==
    IF BorrowedOn(STDOUT_FILENO) # EmptyBag THEN Failure ELSE from_raw_fd(STDOUT_FILENO)

take_stdout == from_raw_fd(STDOUT_FILENO)

\* Variant: closes the slot while constructing the handle.
take_stderr_closing ==
    [val |-> [tag |-> "owned", fd |-> STDERR_FILENO],
     sys |-> << CloseCall(STDERR_FILENO) >>]

\* Variant: a take-once guard.
take_stderr_once ==
    IF OwnedOn(STDERR_FILENO) # EmptyBag THEN Failure ELSE from_raw_fd(STDERR_FILENO)

take_stderr == from_raw_fd(STDERR_FILENO)

\* The slot is selected by the name of the function called.
raw_slot(k) ==
    CASE k = "Input" -> raw_stdin
      [] k = "Output" -> raw_stdout
      [] k = "Error" -> raw_stderr

borrowed_slot(k) ==
    CASE k = "Input" -> stdin
      [] k = "Output" -> stdout
      [] k = "Error" -> stderr

owned_slot(k) ==
    CASE k = "Input" -> take_stdin
      [] k = "Output" -> take_stdout
      [] k = "Error" -> take_stderr

\* ------------------------------------------------- the descriptor table

\* The table after the calls of sys, in order.
RECURSIVE ApplySys(_, _)
ApplySys(tbl, sys) ==
    IF sys = << >> THEN tbl
    ELSE ApplySys([tbl EXCEPT ![Head(sys).fd] = Closed], Tail(sys))

\* The calls of sys as the table saw them: each close with the resource it
\* closed (Closed when the number was not open: the call failed, EBADF).
RECURSIVE SysTrace(_, _)
SysTrace(tbl, sys) ==
    IF sys = << >> THEN << >>
    ELSE << [call |-> "close", fd |-> Head(sys).fd, victim |-> tbl[Head(sys).fd]] >>
         \o SysTrace(ApplySys(tbl, << Head(sys) >>), Tail(sys))

\* ------------------------------------------------------------ the state
\*  std      whether the build enables the "std" feature
\*  fdtable  the process's descriptor table: number -> resource
\*  handles  the handles alive, a bag: each with the accessor it came from
\*           (form, slot) and the resource its number denoted when it was
\*           made.  Handles are Send: any thread may use or drop one.
\*  last     the operation just performed: its caller, its result, the
\*           system calls it issued, the handle it was about (with the
\*           number of live handles equal to it before the operation) and,
\*           for I/O through a handle, the resource the I/O reached

NoHandle == [tag |-> "none", fd |-> -1, via |-> "none", kind |-> "none",
             res0 |-> Closed]

NoVal == [tag |-> "none", fd |-> -1]

Init ==
    /\ std \in BOOLEAN
    /\ fdtable = [fd \in FDs |-> StdioResource(fd)]
    /\ handles = EmptyBag
    /\ last = [op |-> "init", thread |-> "none", kind |-> "none", val |-> NoVal,
               trace |-> << >>, h |-> NoHandle, n |-> 0, hit |-> Closed]

\* The handle alive after an accessor of the given form for slot k
\* returned val.
HandleOf(k, form, val) ==
    [tag |-> val.tag, fd |-> val.fd, via |-> form, kind |-> k,
     res0 |-> fdtable[val.fd]]

\* Thread t calls an accessor of slot k whose outcome is out; form names
\* the accessor's form ("raw", "borrow", "take").
Perform(t, k, form, out) ==
    LET made == out.val.tag \in {"borrowed", "owned"}
        h == IF made THEN HandleOf(k, form, out.val) ELSE NoHandle
    IN  /\ fdtable' = ApplySys(fdtable, out.sys)
        /\ handles' = IF made THEN handles (+) SetToBag({h}) ELSE handles
        /\ last' = [op |-> form, thread |-> t, kind |-> k, val |-> out.val,
                    trace |-> SysTrace(fdtable, out.sys), h |-> h,
                    n |-> CopiesIn(h, handles), hit |-> Closed]
        /\ UNCHANGED std

\* raw_stdin(), raw_stdout(), raw_stderr()
RawAccess(t, k) == Perform(t, k, "raw", raw_slot(k))

\* stdin(), stdout(), stderr()
Borrow(t, k) ==
    /\ BagCardinality(handles) < MaxHandles
    /\ Perform(t, k, "borrow", borrowed_slot(k))

\* take_stdin(), take_stdout(), take_stderr()
Take(t, k) ==
    /\ BagCardinality(handles) < MaxHandles
    /\ Perform(t, k, "take", owned_slot(k))

\* Thread t lets handle h go: scope exit or an explicit drop.
DropHandle(t, h) ==
    /\ BagIn(h, handles)
    /\ handles' = handles (-) SetToBag({h})
    /\ fdtable' = ApplySys(fdtable, drop(h))
    /\ last' = [op |-> "drop", thread |-> t, kind |-> h.kind,
                val |-> [tag |-> h.tag, fd |-> h.fd],
                trace |-> SysTrace(fdtable, drop(h)), h |-> h,
                n |-> CopiesIn(h, handles), hit |-> Closed]
    /\ UNCHANGED std

\* Thread t does I/O through handle h: the table resolves the handle's
\* number to whatever it denotes now.
UseHandle(t, h) ==
    /\ BagIn(h, handles)
    /\ last' = [op |-> "use", thread |-> t, kind |-> h.kind,
                val |-> [tag |-> h.tag, fd |-> h.fd], trace |-> << >>, h |-> h,
                n |-> CopiesIn(h, handles), hit |-> fdtable[h.fd]]
    /\ UNCHANGED << std, fdtable, handles >>

\* Unrelated code opens a resource; the operating system gives it a
\* descriptor number that is free.
OpenUnrelated(fd) ==
    /\ fdtable[fd] = Closed
    /\ fdtable' = [fdtable EXCEPT ![fd] = UnrelatedResource]
    /\ last' = [op |-> "open", thread |-> "none", kind |-> "none",
                val |-> [tag |-> "raw", fd |-> fd], trace |-> << >>,
                h |-> NoHandle, n |-> 0, hit |-> Closed]
    /\ UNCHANGED << std, handles >>

Next ==
    \/ \E t \in Threads, k \in Kinds : RawAccess(t, k)
    \/ \E t \in Threads, k \in Kinds : Borrow(t, k)
    \/ \E t \in Threads, k \in Kinds : Take(t, k)
    \/ \E t \in Threads, h \in BagToSet(handles) : DropHandle(t, h)
    \/ \E t \in Threads, h \in BagToSet(handles) : UseHandle(t, h)
    \/ \E fd \in FDs : OpenUnrelated(fd)

Spec == Init /\ [][Next]_vars

\* =============================================================== claims

\* The platform's documented number of each slot (POSIX: 0, 1, 2).
SlotNumber(k) ==
    CASE k = "Input" -> 0
      [] k = "Output" -> 1
      [] k = "Error" -> 2
      [] OTHER -> -1

OwnedCount(fd) == BagCardinality(OwnedOn(fd))

BorrowedCount(fd) == BagCardinality(BorrowedOn(fd))

\* C1: for every kind the raw accessor returns the platform's fixed number
\* of that kind (0, 1, 2), issuing no system call, and it returns that
\* value in every reachable state: whatever takes, borrows, releases,
\* closes and opens came before, and whether the slot is open or closed.
C1_RawIsFixed ==
    /\ \A k \in Kinds : raw_slot(k).val = [tag |-> "raw", fd |-> SlotNumber(k)]
    /\ last.op = "raw" =>
         /\ last.val = [tag |-> "raw", fd |-> SlotNumber(last.kind)]
         /\ last.trace = << >>

\* A raw call for the error slot made after that slot was closed and reused
\* by an unrelated resource, with a handle alive.
C1_Witness ==
    /\ last.op = "raw"
    /\ last.kind = "Error"
    /\ last.val.fd = 2
    /\ fdtable[2] = UnrelatedResource
    /\ fdtable[0] = Closed
    /\ handles # EmptyBag

\* C2: for every kind and in both build modes, the borrowed accessor returns
\* a borrowed handle whose number equals the raw accessor's value for that
\* kind; the call issues no system call and leaves the descriptor table as
\* it was.
C2_BorrowMatchesRaw ==
    [][last'.op = "borrow" =>
         /\ last'.val.tag = "borrowed"
         /\ last'.val.fd = raw_slot(last'.kind).val.fd
         /\ last'.val.fd = SlotNumber(last'.kind)
         /\ last'.h.fd = last'.val.fd
         /\ last'.trace = << >>
         /\ fdtable' = fdtable]_vars

\* A borrow of the output slot in the no_std build.
C2_Witness ==
    /\ ~std
    /\ last.op = "borrow"
    /\ last.kind = "Output"
    /\ last.val = [tag |-> "borrowed", fd |-> 1]
    /\ BagIn(last.h, handles)

C4_TakeHasNoEffect ==
    [][/\ last'.op = "take" => (last'.trace = << >> /\ fdtable' = fdtable)
       /\ \A fd \in FDs :
            (fdtable[fd] # Closed /\ fdtable'[fd] = Closed) =>
               /\ last'.op = "drop"
               /\ last'.h.tag = "owned"
               /\ last'.h.via = "take"
               /\ last'.h.fd = fd]_vars

\* The error slot was just taken: it is still open, and the handle is alive.
C4_Witness ==
    /\ last.op = "take"
    /\ last.kind = "Error"
    /\ last.trace = << >>
    /\ fdtable[2] = StdioResource(2)
    /\ BagIn(last.h, handles)

\* C5: several borrowed handles for one slot may be alive together, made by
\* any threads; each carries the slot's number, and discarding one, by any
\* thread and in any order, issues no close and leaves the descriptor table
\* as it was.
C5_BorrowedNeverCloses ==
    [][/\ \A h \in BagToSet(handles') :
            h.via = "borrow" => (h.tag = "borrowed" /\ h.fd = SlotNumber(h.kind))
       /\ (last'.op = "drop" /\ last'.h.via = "borrow") =>
            /\ last'.trace = << >>
            /\ fdtable' = fdtable
            /\ CopiesIn(last'.h, handles') = last'.n - 1]_vars

\* Two borrowed handles for the input slot were alive; thread t2 discarded
\* one, the other is still alive and the slot is still open.
C5_Witness ==
    /\ last.op = "drop"
    /\ last.thread = "t2"
    /\ last.h.via = "borrow"
    /\ last.kind = "Input"
    /\ last.n = 2
    /\ CopiesIn(last.h, handles) = 1
    /\ fdtable[0] = StdioResource(0)

\* C6 as stated: in every reachable state at most one owned handle is alive
\* for any standard slot.
C6_AtMostOneOwned == \A fd \in FDs : OwnedCount(fd) <= 1

\* C6, amended: nothing keeps the owned handles of a slot to one.  A take
\* adds exactly one owned handle for its own slot, also when one is already
\* alive, and no other operation adds one; so more than one is alive for a
\* slot only after a take of that slot made while one was alive.
C6_OnlyTakeAddsOwned ==
    [][/\ \A k \in Kinds :
            (last'.op = "take" /\ last'.kind = k) =>
               OwnedCount(SlotNumber(k))' = OwnedCount(SlotNumber(k)) + 1
       /\ \A fd \in FDs :
            OwnedCount(fd)' > OwnedCount(fd) =>
               (last'.op = "take" /\ SlotNumber(last'.kind) = fd)]_vars

\* The input slot was taken while an owned handle for it was alive: two are
\* alive.
C6_Witness ==
    /\ last.op = "take"
    /\ last.kind = "Input"
    /\ OwnedCount(0) = 2

\* C7: once the error slot was taken and its handle released, number 2 is
\* free and an unrelated open may be given it; nothing prevents or detects
\* that: stderr and raw_stderr called afterwards still succeed and return
\* number 2, without a system call, and the borrowed handle denotes what
\* occupies number 2 now.
C7_ErrorSlotReuse ==
    /\ fdtable[2] = Closed => ENABLED OpenUnrelated(2)
    /\ (last.kind = "Error" /\ last.op \in {"borrow", "raw"}) =>
         /\ last.val.tag = (IF last.op = "borrow" THEN "borrowed" ELSE "raw")
         /\ last.val.fd = 2
         /\ last.trace = << >>
         /\ last.op = "borrow" => (last.h.fd = 2 /\ last.h.res0 = fdtable[2])

\* stderr() was called after the error slot was released and number 2 given
\* to an unrelated resource: it returned number 2, which denotes that
\* resource.
C7_Witness ==
    /\ last.op = "borrow"
    /\ last.kind = "Error"
    /\ last.val = [tag |-> "borrowed", fd |-> 2]
    /\ fdtable[2] = UnrelatedResource
    /\ last.h.res0 = UnrelatedResource

\* C8: no accessor has an error outcome.  The raw and borrowed accessors
\* always return their value; a take validates nothing and returns an owned
\* handle also when the slot is closed or an owned handle for it is alive.
\* A release whose close fails (the number was not open) consumes the
\* handle like any other and reports nothing.
C8_NoErrorOutcome ==
    /\ last.op \in {"raw", "borrow", "take"} =>
         /\ last.val.tag # "error"
         /\ last.val.fd = SlotNumber(last.kind)
    /\ last.op = "take" => (last.val.tag = "owned" /\ BagIn(last.h, handles))
    /\ last.op = "borrow" => (last.val.tag = "borrowed" /\ BagIn(last.h, handles))
    /\ (last.op = "drop" /\ last.h.tag = "owned") =>
         /\ last.val = [tag |-> "owned", fd |-> last.h.fd]
         /\ CopiesIn(last.h, handles) = last.n - 1

\* The input slot was taken while it was closed and an owned handle for it
\* was alive: the take returned a second owned handle.
C8_Witness ==
    /\ last.op = "take"
    /\ last.kind = "Input"
    /\ last.h.res0 = Closed
    /\ fdtable[0] = Closed
    /\ OwnedCount(0) = 2

\* C9: a borrowed handle carries only the slot's number, so I/O through it
\* reaches whatever the table holds at that number when it is used; a take
\* of the slot by any thread succeeds while borrowed handles for it are
\* alive, and the release of the owned handle closes the number under them.
C9_BorrowedFollowsReuse ==
    /\ last.op = "use" =>
         /\ last.hit = fdtable[last.h.fd]
         /\ last.h.via = "borrow" => last.h.fd = SlotNumber(last.kind)
    /\ (last.op = "take" /\ BorrowedCount(SlotNumber(last.kind)) > 0) =>
         (last.val.tag = "owned" /\ BagIn(last.h, handles))
    /\ (last.op = "drop" /\ last.h.via = "take") =>
         fdtable[SlotNumber(last.kind)] = Closed

\* Thread t1 used a borrowed handle for the output slot that was made while
\* number 1 denoted the original stream: the I/O reached an unrelated
\* resource (the slot was taken, released and reopened in between).
C9_Witness ==
    /\ last.op = "use"
    /\ last.thread = "t1"
    /\ last.kind = "Output"
    /\ last.h.via = "borrow"
    /\ last.h.res0 = StdioResource(1)
    /\ last.hit = UnrelatedResource

\* C10: a take made while an owned handle for the slot is alive returns a
\* second one; every release of an owned handle issues one close on the
\* slot's number, which closes whatever the number denotes at that moment
\* (the original stream, an unrelated resource opened since, or nothing),
\* and reports no error.
C10_DoubleTakeDoubleClose ==
    [][/\ \A k \in Kinds :
            (last'.op = "take" /\ last'.kind = k /\ OwnedCount(SlotNumber(k)) > 0) =>
               /\ last'.val.tag = "owned"
               /\ OwnedCount(SlotNumber(k))' = OwnedCount(SlotNumber(k)) + 1
       /\ (last'.op = "drop" /\ last'.h.via = "take") =>
            /\ last'.trace = << [call |-> "close", fd |-> SlotNumber(last'.kind),
                                 victim |-> fdtable[SlotNumber(last'.kind)]] >>
            /\ fdtable' = [fdtable EXCEPT ![SlotNumber(last'.kind)] = Closed]
            /\ last'.val.tag = "owned"]_vars

\* An owned handle for the error slot, taken while number 2 denoted the
\* original stream, was released and its close closed an unrelated
\* resource: another owned handle for the slot was released, and the number
\* reopened, while this one was alive.
C10_Witness ==
    /\ last.op = "drop"
    /\ last.kind = "Error"
    /\ last.h.via = "take"
    /\ last.h.res0 = StdioResource(2)
    /\ last.trace = << [call |-> "close", fd |-> 2, victim |-> UnrelatedResource] >>
    /\ fdtable[2] = Closed

====
